---- MODULE Spec2Model ----
(***************************************************************************)
(* Reading-status store of the book catalogue: the localStorage entry, the *)
(* useReadingState composable, the kanban board (BookKanban.vue with       *)
(* useKanbanColumns and useDragDrop) and the column projection.            *)
(***************************************************************************)
EXTENDS Integers, Sequences, FiniteSets, TLC

\* Catalogue ids are 1..NumBooks.
NumBooks == 2
\* Largest order value a record may carry (caps setBookStatus's max + 1).
MaxOrder == 2
\* Largest number of entries an instance's errorHistory may hold.
MaxErrors == 2
\* Largest number of books the server's catalogue holds.
MaxItems == 11
\* Largest number of fetches a view has in flight at a time.
MaxInFlight == 2
\* Largest number of timers pending at a time.
MaxTimers == 2
\* Largest number of pages the pagination bar is drawn for.
MaxPages == 14

BookIds == 1..NumBooks
Statuses == {"to-read", "currently-reading", "read"}
\* The three fixed columns, in the order booksToColumns creates them.
ColumnIds == <<"to-read", "currently-reading", "read">>
Undefined == "undefined"

Max(S) == CHOOSE x \in S : \A y \in S : y <= x

----------------------------------------------------------------------------
(* BookReadingState: a map bookId -> {status, order}, a function whose      *)
(* domain is the set of ids that have a record.                             *)

EmptyMap == [b \in {} |-> [status |-> "to-read", order |-> 0]]

StatusRecords == [status : Statuses, order : 0..MaxOrder]

StatusMaps == UNION {[D -> StatusRecords] : D \in SUBSET BookIds}

\* JSON.stringify(state): the stored text, one member per key.
JSONStringify(state) ==
  {<<b, state[b].status, state[b].order>> : b \in DOMAIN state}

\* JSON.parse(stored): the object the text denotes.
JSONParse(text) ==
  [b \in {e[1] : e \in text} |->
     LET e == CHOOSE x \in text : x[1] = b
     IN [status |-> e[2], order |-> e[3]]]

\* columns before a board is set up: no card in any column.
NoColumns == [c \in Statuses |-> <<>>]

\* What JSON.parse can give for the entry: an object or an array of records,
\* null, a number or a string. map holds the records of an object or array and
\* is empty for the other kinds.
ValueKinds == {"object", "array", "null", "number", "string"}

Obj(state) == [kind |-> "object", map |-> state]

JSUndefined == [kind |-> "undefined", map |-> EmptyMap]

\* localStorage.getItem returns null when the key has no entry.
NoEntry == [present |-> FALSE, kind |-> "none", text |-> {}]

\* The entry whose text is JSON.stringify of a value.
EntryOf(value) ==
  [present |-> TRUE, kind |-> value.kind, text |-> JSONStringify(value.map)]

Entry(state) == EntryOf(Obj(state))

\* An entry whose text JSON.parse rejects.
MalformedEntry == [present |-> TRUE, kind |-> "malformed", text |-> {}]

\* Entries whose text parses to something that is no map of records: the
\* texts null, 5, "x" and [].
WrongShapeEntries ==
  {EntryOf([kind |-> k, map |-> EmptyMap]) :
     k \in {"null", "number", "string", "array"}}

\* The Storage methods, each of which can throw (storage disabled, quota
\* exceeded).
StorageMethods == {"getItem", "setItem", "removeItem"}

VARIABLES
  storage,       \* localStorage's entry under STORAGE_KEY
  failing,       \* the Storage methods that throw in this session
  readingState,  \* the readingState ref of the live useReadingState instance
  errorHistory,  \* the errorHistory ref of that instance's useErrorHandler
  fresh,         \* the live instance has made no call yet
  last,          \* the last composable call: its arguments and its result
  mounted,       \* a BookKanban component is mounted
  books,         \* its props.books (ids, in list order)
  columns,       \* useKanbanColumns' columns.value, which the template renders
  dragColumns,   \* the columns array useDragDrop captured at setup
  drag,          \* the last handleDragEnd run: its event and what it did
  view,          \* the routed view that fetches books: its refs and its fetches
  profile        \* useUserProfile's user and the profile editor's form

vars == <<storage, failing, readingState, errorHistory, fresh, last, mounted,
          books, columns, dragColumns, drag, view, profile>>

kanbanVars == <<mounted, books, columns, dragColumns, drag>>

----------------------------------------------------------------------------
(* utils/localStorage.ts *)

\* What goes wrong inside loadReadingState's try block: getItem throws, or
\* JSON.parse throws on the stored text.
LoadFailures(st, fails) ==
  IF "getItem" \in fails
    THEN {"getItem"}
    ELSE IF st.present /\ st.kind = "malformed" THEN {"JSON.parse"} ELSE {}

\* try { stored ? JSON.parse(stored) : {} } catch { return {} }
loadReadingState(st, fails) ==
  IF LoadFailures(st, fails) # {} \/ ~st.present
    THEN Obj(EmptyMap)
    ELSE [kind |-> st.kind, map |-> JSONParse(st.text)]

\* try { localStorage.setItem(STORAGE_KEY, JSON.stringify(state)) } catch {}
saveReadingState(st, value, fails) ==
  IF "setItem" \in fails THEN st ELSE EntryOf(value)

\* try { localStorage.removeItem(STORAGE_KEY) } catch {}
clearReadingState(st, fails) ==
  IF "removeItem" \in fails THEN st ELSE NoEntry

----------------------------------------------------------------------------
(* composables/useErrorHandler.ts *)

\* try { return fn() } catch (err) { handleError(err, context); return
\* fallback }: what fn did and returned, or the fallback and one errorHistory
\* entry when fn threw.
safeExecute(ran, context, fallback) ==
  [ran EXCEPT !.ret = IF ran.threw THEN fallback ELSE @,
              !.logged = IF ran.threw THEN <<context>> ELSE <<>>,
              !.threw = FALSE]

----------------------------------------------------------------------------
(* composables/useReadingState.ts *)

\* state[bookId]?.status
StatusOf(state, bookId) ==
  IF bookId \in DOMAIN state THEN state[bookId].status ELSE Undefined

\* item?.order || 0
OrderOrZero(item) == IF item.order = 0 THEN 0 ELSE item.order

\* maxOrder with the + 1 left out.
MaxOrderNoIncrement(state) ==
  Max({0} \cup {OrderOrZero(state[b]) : b \in DOMAIN state})

\* Math.max(0, ...Object.values(state).map((item) => item?.order || 0)) + 1
maxOrder(state) ==
  Max({0} \cup {OrderOrZero(state[b]) : b \in DOMAIN state}) + 1

Assign(state, bookId, rec) ==
  [b \in DOMAIN state \cup {bookId} |-> IF b = bookId THEN rec ELSE state[b]]

\* WithStatus with ?? applied to the whole record: an existing record is kept
\* as it is.
WithStatusKeepExisting(state, bookId, status) ==
  IF bookId \in DOMAIN state
    THEN state
    ELSE Assign(state, bookId, [status |-> status, order |-> maxOrder(state)])

\* WithStatus with || in the place of ??: an existing order of 0 is replaced.
WithStatusOrderOr(state, bookId, status) ==
  Assign(state, bookId,
         [status |-> status,
          order |-> IF bookId \in DOMAIN state /\ state[bookId].order # 0
                      THEN state[bookId].order
                      ELSE maxOrder(state)])

\* state[bookId] = { status, order: state[bookId]?.order ?? maxOrder }
WithStatus(state, bookId, status) ==
  Assign(state, bookId,
         [status |-> status,
          order |-> IF bookId \in DOMAIN state THEN state[bookId].order
                                               ELSE maxOrder(state)])

\* Without with the delete left out.
WithoutNoDelete(state, bookId) == state

\* delete state[bookId]
Without(state, bookId) == [b \in DOMAIN state \ {bookId} |-> state[b]]

\* What a wrapped function returns: a status string or a map, undefined for
\* the one it does not return.
Returns(retStatus, retMap) == [retStatus |-> retStatus, retMap |-> retMap]

ReturnsUndefined == Returns(Undefined, JSUndefined)

\* The function ran to its end: the entry and the ref it leaves, what it
\* returns and the storage-layer failures its helpers caught on the way.
Ran(st, rs, ret, failed) ==
  [threw |-> FALSE, storage |-> st, readingState |-> rs, ret |-> ret,
   failed |-> failed, logged |-> <<>>]

\* The function threw before it wrote anything.
Threw(failed) ==
  [threw |-> TRUE, storage |-> storage, readingState |-> readingState,
   ret |-> ReturnsUndefined, failed |-> failed, logged |-> <<>>]

\* readingState.value = state; return readingState.value
loadStateOn(state) ==
  Ran(storage, state, Returns(Undefined, state),
      LoadFailures(storage, failing))

\* readingState.value = loadReadingState(); return readingState.value
loadStateFn == loadStateOn(loadReadingState(storage, failing))

\* saveReadingState(state); readingState.value = state; return
\* readingState.value
saveStateOn(state) ==
  Ran(saveReadingState(storage, state, failing), state,
      Returns(Undefined, state), failing \cap {"setItem"})

\* const state = columnsToReadingState(columns), and the rest of saveState
saveStateFn(state) == saveStateOn(Obj(state))

\* clearReadingState(); readingState.value = {}
clearStateFn ==
  Ran(clearReadingState(storage, failing), Obj(EmptyMap),
      Returns(Undefined, Obj(EmptyMap)), failing \cap {"removeItem"})

\* return state[bookId]?.status; state[bookId] throws a TypeError on null.
getBookStatusOn(state, bookId) ==
  IF state.kind = "null"
    THEN Threw(LoadFailures(storage, failing))
    ELSE Ran(storage, readingState,
             Returns(StatusOf(state.map, bookId), JSUndefined),
             LoadFailures(storage, failing))

\* const state = loadReadingState(), and the rest of getBookStatus
getBookStatusFn(bookId) ==
  getBookStatusOn(loadReadingState(storage, failing), bookId)

\* saveReadingState(state); readingState.value = state
WriteBack(state) ==
  Ran(saveReadingState(storage, state, failing), state, ReturnsUndefined,
      LoadFailures(storage, failing) \cup (failing \cap {"setItem"}))

\* Object.values(state) throws a TypeError on null, and the assignment
\* state[bookId] = ... throws one on a number or a string (module code is
\* strict).
setBookStatusOn(state, bookId, status) ==
  IF state.kind \in {"null", "number", "string"}
    THEN Threw(LoadFailures(storage, failing))
    ELSE WriteBack([state EXCEPT !.map = WithStatus(@, bookId, status)])

setBookStatusFromRef(bookId, status) ==
  setBookStatusOn(readingState, bookId, status)

\* const state = loadReadingState(), and the rest of setBookStatus
setBookStatusFn(bookId, status) ==
  setBookStatusOn(loadReadingState(storage, failing), bookId, status)

\* delete state[bookId] throws a TypeError on null; on a number and on the
\* string "x" it deletes nothing.
removeBookStatusOn(state, bookId) ==
  IF state.kind = "null"
    THEN Threw(LoadFailures(storage, failing))
    ELSE WriteBack([state EXCEPT !.map = Without(@, bookId)])

\* const state = loadReadingState(), and the rest of removeBookStatus
removeBookStatusFn(bookId) ==
  removeBookStatusOn(loadReadingState(storage, failing), bookId)

\* return loadReadingState()
getAllStatusesFn ==
  Ran(storage, readingState,
      Returns(Undefined, loadReadingState(storage, failing)),
      LoadFailures(storage, failing))

\* What a call leaves for the next one to be compared with: a write's
\* arguments, nothing for the other calls.
Writes == {"setBookStatus", "removeBookStatus", "otherTab.setBookStatus"}

NoPrev ==
  [op |-> "other", id |-> 0, status |-> "", hadRecord |-> FALSE,
   failed |-> {}]

PrevOf(call) ==
  IF call.op \in Writes
    THEN [op |-> call.op, id |-> call.id, status |-> call.status,
          hadRecord |-> call.hadRecord, failed |-> call.failed]
    ELSE NoPrev

NoCall ==
  [op |-> "none", id |-> 0, status |-> "", retStatus |-> Undefined,
   retMap |-> JSUndefined, hadRecord |-> FALSE, newInstance |-> FALSE,
   threw |-> FALSE, failed |-> {}, prev |-> NoPrev]

\* The record of a call; prev is the call before it when that was a write of
\* the same book, or a write of another tab.
Call(op, id, status, retStatus, retMap, hadRecord) ==
  [op |-> op, id |-> id, status |-> status, retStatus |-> retStatus,
   retMap |-> retMap, hadRecord |-> hadRecord, newInstance |-> fresh,
   threw |-> FALSE, failed |-> {},
   prev |-> IF last.id = id \/ last.op = "otherTab.setBookStatus"
              THEN PrevOf(last) ELSE NoPrev]

\* A call of a Status Service function: the wrapped function under
\* safeExecute, with what it leaves in storage, in the ref and in
\* errorHistory. hadRecord tells whether the book had a record to begin with.
Run(op, id, status, ran) ==
  /\ storage' = ran.storage
  /\ readingState' = ran.readingState
  /\ \A b \in DOMAIN ran.readingState.map :
       ran.readingState.map[b].order <= MaxOrder
  /\ errorHistory' = errorHistory \o ran.logged
  /\ Len(errorHistory') <= MaxErrors
  /\ last' = [Call(op, id, status, ran.ret.retStatus, ran.ret.retMap,
                   id \in DOMAIN loadReadingState(storage, failing).map)
                EXCEPT !.threw = ran.threw, !.failed = ran.failed]
  /\ fresh' = FALSE
  /\ UNCHANGED <<failing, view, profile>>

\* const readingState = ref<BookReadingState>({}) and useErrorHandler(): a
\* component's setup, or a test, takes a new instance; the earlier one is
\* dropped.
UseReadingState ==
  /\ ~mounted
  /\ ~fresh
  /\ readingState' = Obj(EmptyMap)
  /\ errorHistory' = <<>>
  /\ fresh' = TRUE
  /\ UNCHANGED <<storage, failing, last, kanbanVars, view, profile>>

LoadState ==
  /\ ~mounted
  /\ Run("loadState", 0, "",
         safeExecute(loadStateFn, "useReadingState.loadState",
                     Returns(Undefined, Obj(EmptyMap))))
  /\ UNCHANGED kanbanVars

ClearState ==
  /\ ~mounted
  /\ Run("clearState", 0, "",
         safeExecute(clearStateFn, "useReadingState.clearState",
                     Returns(Undefined, Obj(EmptyMap))))
  /\ UNCHANGED kanbanVars

GetBookStatus(bookId) ==
  /\ ~mounted
  /\ Run("getBookStatus", bookId, "",
         safeExecute(getBookStatusFn(bookId), "useReadingState.getBookStatus",
                     ReturnsUndefined))
  /\ UNCHANGED kanbanVars

SetBookStatus(bookId, status) ==
  /\ ~mounted
  /\ Run("setBookStatus", bookId, status,
         safeExecute(setBookStatusFn(bookId, status),
                     "useReadingState.setBookStatus", ReturnsUndefined))
  /\ UNCHANGED kanbanVars

RemoveBookStatus(bookId) ==
  /\ ~mounted
  /\ Run("removeBookStatus", bookId, "",
         safeExecute(removeBookStatusFn(bookId),
                     "useReadingState.removeBookStatus", ReturnsUndefined))
  /\ UNCHANGED kanbanVars

\* setBookStatus in another tab of the browser: its own useReadingState
\* instance, on the same localStorage. This tab's refs are not touched.
OtherTabSetBookStatus(bookId, status) ==
  LET ran == safeExecute(setBookStatusOn(loadReadingState(storage, failing),
                                         bookId, status),
                         "useReadingState.setBookStatus", ReturnsUndefined)
  IN /\ storage' = ran.storage
     /\ \A b \in DOMAIN ran.readingState.map :
          ran.readingState.map[b].order <= MaxOrder
     /\ last' = [Call("otherTab.setBookStatus", bookId, status, Undefined,
                      JSUndefined,
                      bookId \in DOMAIN loadReadingState(storage, failing).map)
                   EXCEPT !.newInstance = FALSE]
     /\ UNCHANGED <<failing, readingState, errorHistory, fresh, kanbanVars,
                    view, profile>>

GetAllStatuses ==
  /\ ~mounted
  /\ Run("getAllStatuses", 0, "",
         safeExecute(getAllStatusesFn, "useReadingState.getAllStatuses",
                     Returns(Undefined, Obj(EmptyMap))))
  /\ UNCHANGED kanbanVars

----------------------------------------------------------------------------
(* utils/bookTransform.ts: the column projection *)

\* bookToBookWithStatus with 'read' as the status of a book without a record.
bookToBookWithStatusDefaultRead(book, state) ==
  LET rec == IF book \in DOMAIN state
               THEN state[book]
               ELSE [status |-> "read", order |-> 0]
  IN [id |-> book, readingStatus |-> rec.status, order |-> rec.order]

\* readingState[book.id] || { status: 'to-read', order: 0 }
bookToBookWithStatus(book, state) ==
  LET rec == IF book \in DOMAIN state
               THEN state[book]
               ELSE [status |-> "to-read", order |-> 0]
  IN [id |-> book, readingStatus |-> rec.status, order |-> rec.order]

\* InsertByOrder with x put before the members of equal order.
InsertByOrderBeforeTies(sorted, x) ==
  LET k == Cardinality({i \in 1..Len(sorted) : sorted[i].order < x.order})
  IN SubSeq(sorted, 1, k) \o <<x>> \o SubSeq(sorted, k + 1, Len(sorted))

\* x put behind every member of the sorted list whose order is not larger.
InsertByOrder(sorted, x) ==
  LET k == Cardinality({i \in 1..Len(sorted) : sorted[i].order <= x.order})
  IN SubSeq(sorted, 1, k) \o <<x>> \o SubSeq(sorted, k + 1, Len(sorted))

RECURSIVE SortByOrder(_)
\* column.books.sort((a, b) => a.order - b.order), a stable sort
SortByOrder(list) ==
  IF list = <<>>
    THEN <<>>
    ELSE InsertByOrder(SortByOrder(SubSeq(list, 1, Len(list) - 1)),
                       list[Len(list)])

booksToColumns(bookList, state) ==
  LET booksWithStatus ==
        [i \in 1..Len(bookList) |-> bookToBookWithStatus(bookList[i], state)]
      InColumn(c) ==
        LET Test(b) == b.readingStatus = c IN SelectSeq(booksWithStatus, Test)
  IN [c \in Statuses |-> SortByOrder(InColumn(c))]

----------------------------------------------------------------------------
(* composables/useKanbanColumns.ts *)

updateColumns(bookList, state) ==
  IF Len(bookList) = 0 THEN NoColumns ELSE booksToColumns(bookList, state)

\* updateColumns(readingState) called on a useKanbanColumns instance made over
\* books, as its own setup calls it.
UpdateColumns ==
  /\ ~mounted
  /\ columns' = updateColumns(books, readingState.map)
  /\ last' = Call("updateColumns", 0, "", Undefined, readingState, FALSE)
  /\ UNCHANGED <<storage, failing, readingState, errorHistory, fresh, mounted,
                 books, dragColumns, drag, view, profile>>

----------------------------------------------------------------------------
(* utils/localStorage.ts: columnsToReadingState *)

\* The cards of all columns, in the order columns.forEach visits them.
Cards(cols) ==
  cols[ColumnIds[1]] \o cols[ColumnIds[2]] \o cols[ColumnIds[3]]

\* state[book.id] = { status: book.readingStatus, order: book.order }; a later
\* card of the same id overwrites an earlier one.
columnsToReadingState(cols) ==
  LET cards == Cards(cols)
      Pos(b) == Max({i \in 1..Len(cards) : cards[i].id = b})
  IN [b \in {cards[i].id : i \in 1..Len(cards)} |->
        [status |-> cards[Pos(b)].readingStatus, order |-> cards[Pos(b)].order]]

\* saveState(columns) called on the live instance.
SaveState(cols) ==
  /\ ~mounted
  /\ Run("saveState", 0, "",
         safeExecute(saveStateFn(columnsToReadingState(cols)),
                     "useReadingState.saveState",
                     Returns(Undefined, readingState)))
  /\ UNCHANGED kanbanVars

----------------------------------------------------------------------------
(* The drag gesture: vuedraggable moves the card in the list it is bound to
   (v-model="column.books") and then emits Sortable's end event. *)

RemoveAt(list, i) == SubSeq(list, 1, i - 1) \o SubSeq(list, i + 1, Len(list))

InsertAt(list, i, x) ==
  SubSeq(list, 1, i - 1) \o <<x>> \o SubSeq(list, i, Len(list))

Relocate(cols, source, oldIndex, target, newIndex) ==
  LET card == cols[source][oldIndex]
      taken == [cols EXCEPT ![source] = RemoveAt(@, oldIndex)]
  IN [taken EXCEPT ![target] = InsertAt(@, newIndex, card)]

Digits == <<"0", "1", "2", "3", "4", "5", "6", "7", "8", "9">>

RECURSIVE IdString(_)
\* :data-book-id="book.id": the id's decimal digits
IdString(n) ==
  IF n < 10 THEN <<Digits[n + 1]>>
            ELSE IdString(n \div 10) \o <<Digits[(n % 10) + 1]>>

IsDigit(ch) == \E d \in 1..10 : Digits[d] = ch

DigitValue(ch) == (CHOOSE d \in 1..10 : Digits[d] = ch) - 1

NaN == [nan |-> TRUE, n |-> 0]

Number(n) == [nan |-> FALSE, n |-> n]

RECURSIVE ParseDigits(_, _)
ParseDigits(str, acc) ==
  IF str = <<>> \/ ~IsDigit(Head(str))
    THEN acc
    ELSE ParseDigits(Tail(str), 10 * acc + DigitValue(Head(str)))

\* parseInt(bookIdStr): the leading digits' value, NaN when there are none
parseInt(str) ==
  IF str = <<>> \/ ~IsDigit(Head(str)) THEN NaN
                                       ELSE Number(ParseDigits(str, 0))

\* An element's attribute: getAttribute returns null when it is not set.
NoAttr(empty) == [has |-> FALSE, value |-> empty]

Attr(v) == [has |-> TRUE, value |-> v]

NoElement == [present |-> FALSE, attr |-> NoAttr("")]

NoItem == [present |-> FALSE, attr |-> NoAttr(<<>>)]

Element(attr) == [present |-> TRUE, attr |-> attr]

\* The end event of a drag of card `book` from column `source` to `target`.
SortableEvent(source, target, book) ==
  [from |-> Element(Attr(source)), to |-> Element(Attr(target)),
   item |-> Element(Attr(IdString(book)))]

\* What an end event can lack.
Faults ==
  {"no-from", "no-to", "no-item", "no-source-id", "no-target-id",
   "no-book-id", "nan-book-id", "zero-book-id"}

Corrupt(ev, fault) ==
  CASE fault = "no-from" -> [ev EXCEPT !.from = NoElement]
    [] fault = "no-to" -> [ev EXCEPT !.to = NoElement]
    [] fault = "no-item" -> [ev EXCEPT !.item = NoItem]
    [] fault = "no-source-id" -> [ev EXCEPT !.from = Element(NoAttr(""))]
    [] fault = "no-target-id" -> [ev EXCEPT !.to = Element(NoAttr(""))]
    [] fault = "no-book-id" -> [ev EXCEPT !.item = Element(NoAttr(<<>>))]
    [] fault = "nan-book-id" -> [ev EXCEPT !.item = Element(Attr(<<"x">>))]
    [] fault = "zero-book-id" -> [ev EXCEPT !.item = Element(Attr(<<"0">>))]

----------------------------------------------------------------------------
(* composables/useDragDrop.ts *)

\* !from || !to || !item
MissingElements(ev) ==
  ~ev.from.present \/ ~ev.to.present \/ ~ev.item.present

\* A null or empty attribute is falsy.
FalsyAttr(attr, empty) == ~attr.has \/ attr.value = empty

\* bookIdStr ? parseInt(bookIdStr) : 0
BookIdOf(attr) == IF FalsyAttr(attr, <<>>) THEN Number(0) ELSE parseInt(attr.value)

\* MissingAttributes with the !bookId test left out.
MissingAttributesNoBookCheck(sourceColumnId, targetColumnId, bookId) ==
  FalsyAttr(sourceColumnId, "") \/ FalsyAttr(targetColumnId, "")

\* !sourceColumnId || !targetColumnId || !bookId
MissingAttributes(sourceColumnId, targetColumnId, bookId) ==
  \/ FalsyAttr(sourceColumnId, "")
  \/ FalsyAttr(targetColumnId, "")
  \/ bookId.nan
  \/ bookId.n = 0

\* targetColumn.books.find((b) => b.id === bookId): book.readingStatus =
\* targetColumnId for the first card of that id in the target column.
MarkMoved(cols, targetColumnId, bookId) ==
  IF targetColumnId \notin Statuses
    THEN cols
    ELSE LET list == cols[targetColumnId]
             hits == {i \in 1..Len(list) : list[i].id = bookId}
         IN IF hits = {}
              THEN cols
              ELSE LET i == CHOOSE j \in hits : \A k \in hits : j <= k
                   IN [cols EXCEPT ![targetColumnId][i].readingStatus =
                                      targetColumnId]

\* columns.forEach((column) => column.books.forEach((book, index) => {
\*   book.order = index }))
Renumber(cols) ==
  [c \in Statuses |->
     [i \in 1..Len(cols[c]) |-> [cols[c][i] EXCEPT !.order = i - 1]]]

\* handleDragEnd over the columns array it was given: whether it went on to
\* save, the array after it, and the notifications it sent.
handleDragEnd(cols, ev) ==
  IF MissingElements(ev)
    THEN [handled |-> FALSE, columns |-> cols, emits |-> <<>>]
    ELSE
      LET sourceColumnId == ev.from.attr
          targetColumnId == ev.to.attr
          bookId == BookIdOf(ev.item.attr)
      IN IF MissingAttributes(sourceColumnId, targetColumnId, bookId)
           THEN [handled |-> FALSE, columns |-> cols, emits |-> <<>>]
           ELSE
             LET crossed == sourceColumnId.value # targetColumnId.value
                 marked == IF crossed
                             THEN MarkMoved(cols, targetColumnId.value, bookId.n)
                             ELSE cols
             IN [handled |-> TRUE,
                 columns |-> Renumber(marked),
                 emits |-> IF crossed
                             THEN <<<<bookId.n, targetColumnId.value>>>>
                             ELSE <<>>]

----------------------------------------------------------------------------
(* components/BookKanban.vue and views/KanbanView.vue *)

RECURSIVE Ascending(_)
Ascending(S) ==
  IF S = {} THEN <<>>
            ELSE LET m == CHOOSE x \in S : \A y \in S : x <= y
                 IN <<m>> \o Ascending(S \ {m})

\* result.books of a fetch: the catalogue's books that match the search, in
\* the catalogue's order. The board is rendered for a non-empty list only.
BookLists == {Ascending(S) : S \in (SUBSET BookIds) \ {{}}}

NoDrag ==
  [kind |-> "none", fault |-> "none", source |-> "", target |-> "",
   book |-> 0, saves |-> 0, emits |-> <<>>]

\* onMounted(() => { loadState() }) on the component's new useReadingState
\* instance.
MountLoad(ran) ==
  /\ readingState' = ran.readingState
  /\ errorHistory' = ran.logged
  /\ last' = [Call("loadState", 0, "", Undefined, ran.ret.retMap, FALSE)
                EXCEPT !.newInstance = TRUE, !.failed = ran.failed]

\* BookKanban's setup and mount. useReadingState() gives an empty ref;
\* useKanbanColumns(props.books, readingState.value) builds the columns from
\* it; useDragDrop is handed that array; the immediate watcher builds the
\* columns again, still from the empty ref, and columns.value is the new array;
\* onMounted then loads the stored map into the ref.
KanbanMount(bookList) ==
  /\ ~mounted
  /\ mounted' = TRUE
  /\ books' = bookList
  /\ dragColumns' = updateColumns(bookList, EmptyMap)
  /\ columns' = updateColumns(bookList, EmptyMap)
  /\ MountLoad(safeExecute(loadStateFn, "useReadingState.loadState",
                           Returns(Undefined, Obj(EmptyMap))))
  /\ fresh' = FALSE
  /\ drag' = NoDrag
  /\ UNCHANGED <<storage, failing, view, profile>>

\* The board leaves the page (a new fetch puts KanbanView into its loading
\* state, or the route changes); the next view's setup takes its own
\* useReadingState instance.
KanbanUnmount ==
  /\ mounted
  /\ mounted' = FALSE
  /\ books' = <<>>
  /\ columns' = NoColumns
  /\ dragColumns' = NoColumns
  /\ drag' = NoDrag
  /\ readingState' = Obj(EmptyMap)
  /\ errorHistory' = <<>>
  /\ fresh' = TRUE
  /\ UNCHANGED <<storage, failing, last, view, profile>>

\* saveColumnsState: () => saveState(columns.value)
SaveColumnsState(ran) ==
  /\ storage' = ran.storage
  /\ readingState' = ran.readingState
  /\ errorHistory' = errorHistory \o ran.logged
  /\ last' = [Call("saveState", 0, "", Undefined, ran.ret.retMap, FALSE)
                EXCEPT !.failed = ran.failed]

\* The board after a handleDragEnd run with result res.
Handled(res, rendered, record) ==
  /\ columns' = rendered
  /\ dragColumns' = res.columns
  /\ IF res.handled
       THEN SaveColumnsState(
              safeExecute(saveStateFn(columnsToReadingState(rendered)),
                          "useReadingState.saveState",
                          Returns(Undefined, readingState)))
       ELSE UNCHANGED <<storage, readingState, errorHistory, last>>
  /\ drag' = [record EXCEPT
                !.kind = IF res.handled THEN "handled" ELSE "ignored",
                !.saves = IF res.handled THEN 1 ELSE 0,
                !.emits = res.emits]
  /\ UNCHANGED <<failing, mounted, books, fresh, view, profile>>

\* What handleDragEnd(ev) does from the board's state: it runs over the array
\* useDragDrop holds, and saveColumnsState is () => saveState(columns.value),
\* over the rendered array.
Handle(ev, rendered, record) ==
  Handled(handleDragEnd(dragColumns, ev), rendered, record)

\* A card is dropped: vuedraggable has rearranged the rendered list, and the
\* end event names the two columns and the card.
DragEnd(source, oldIndex, target, newIndex) ==
  /\ mounted
  /\ oldIndex \in 1..Len(columns[source])
  /\ newIndex \in 1..(Len(columns[target]) + IF source = target THEN 0 ELSE 1)
  /\ LET card == columns[source][oldIndex]
     IN Handle(SortableEvent(source, target, card.id),
               Relocate(columns, source, oldIndex, target, newIndex),
               [NoDrag EXCEPT !.source = source, !.target = target,
                              !.book = card.id])

\* An end event that lacks one of its parts reaches the handler; no list was
\* rearranged.
MalformedEnd(source, oldIndex, target, fault) ==
  /\ mounted
  /\ oldIndex \in 1..Len(columns[source])
  /\ LET card == columns[source][oldIndex]
     IN Handle(Corrupt(SortableEvent(source, target, card.id), fault),
               columns, [NoDrag EXCEPT !.fault = fault])

----------------------------------------------------------------------------
(* data/books.ts and the views that fetch: BookList.vue, KanbanView.vue,
   BookDetailView.vue with useBookDetail *)

Null == "null"

\* The parameters a request carries: GET /books/:id, or GET /books with
\* _page, _limit and q.
Request(id, page, limit, term) ==
  [id |-> id, page |-> page, limit |-> limit, term |-> term]

NoRequest == Request(0, 0, 0, "")

\* Math.ceil(a / b)
Ceil(a, b) == (a + b - 1) \div b

\* No fetching view is routed.
NoView ==
  [name |-> "none", isLoading |-> FALSE, error |-> Null, books |-> <<>>,
   currentPage |-> 1, totalPages |-> 0, bookId |-> 0, book |-> 0,
   inflight |-> 0, lastOutcome |-> "none", searchTerm |-> "",
   pending |-> <<>>, runs |-> 0, pageSize |-> 10, totalItems |-> 0,
   op |-> "none", issued |-> NoRequest, answered |-> NoRequest,
   raced |-> FALSE, timers |-> {}, debounceTimeout |-> 0,
   sinceInput |-> 0, lastInput |-> ""]

\* How a request can fail: fetch rejects, or the server answers 404 or 5xx.
FetchFailures == {"network", "404", "500"}

Failure(kind) == [kind |-> kind, books |-> <<>>, totalItems |-> 0]

\* A 200 response: the page's books and the count the X-Total-Count header
\* gives.
Ok(bookList, totalItems) ==
  [kind |-> "ok", books |-> bookList, totalItems |-> totalItems]

\* What GET /books can come to: no items means no books.
BooksResponses ==
  {Failure(kind) : kind \in FetchFailures}
    \cup {Ok(<<>>, 0)}
    \cup {Ok(bookList, Len(bookList)) : bookList \in BookLists}
    \cup {Ok(bookList, MaxItems) : bookList \in BookLists}

\* Every response of the server.
Responses ==
  BooksResponses \cup {Ok(<<id>>, 1) : id \in BookIds}

\* What GET /books/:id can come to.
BookResponses(id) ==
  {Failure(kind) : kind \in FetchFailures} \cup {Ok(<<id>>, 1)}

\* getBooks: the response's books and counts, and on any failure, caught in
\* getBooks itself, an empty result.
getBooks(params, response) ==
  IF response.kind = "ok"
    THEN [books |-> response.books,
          totalPages |-> Ceil(response.totalItems, params.limit),
          totalItems |-> response.totalItems,
          currentPage |-> params.page]
    ELSE [books |-> <<>>, totalPages |-> 0, totalItems |-> 0,
          currentPage |-> 1]

\* The Error fetch rejects with.
RejectionError == "Failed to fetch"

FetchBookErrorNo404(kind) ==
  CASE kind = "network" -> RejectionError
    [] OTHER -> "HTTP error: " \o kind

\* fetchBook's error for a failed request: the message of the Error thrown
\* on !response.ok, or the Error fetch rejects with.
FetchBookError(kind) ==
  CASE kind = "404" -> "Book not found"
    [] kind = "network" -> RejectionError
    [] OTHER -> "HTTP error: " \o kind

\* fetchBooks / fetchAllBooks up to await getBooks(params)
StartFetch(v) ==
  [v EXCEPT !.isLoading = TRUE, !.error = Null, !.inflight = @ + 1,
            !.pending =
              Append(@, Request(0, v.currentPage, v.pageSize, v.searchTerm)),
            !.issued = Request(0, v.currentPage, v.pageSize, v.searchTerm),
            !.raced = v.pending # <<>>]

\* fetchAllBooks up to await getBooks(params): page 1 with a large limit
StartFetchAll(v) ==
  [v EXCEPT !.isLoading = TRUE, !.error = Null, !.inflight = @ + 1,
            !.pending = Append(@, Request(0, 1, 1000, v.searchTerm)),
            !.issued = Request(0, 1, 1000, v.searchTerm),
            !.raced = v.pending # <<>>]

\* fetchBook up to await fetch(...), or its early return on a bad id (0 and
\* NaN are falsy, a negative id is <= 0); runs counts fetchBook's runs, up
\* to 2.
StartFetchBook(v) ==
  IF v.bookId <= 0
    THEN [v EXCEPT !.error = "Invalid book ID", !.runs = IF @ < 2 THEN @ + 1 ELSE @]
    ELSE [v EXCEPT !.isLoading = TRUE, !.error = Null, !.book = 0,
                   !.inflight = @ + 1,
                   !.pending = Append(@, Request(v.bookId, 0, 0, "")),
                   !.runs = IF @ < 2 THEN @ + 1 ELSE @]

\* The block of the template's v-if chain that is rendered.
ViewState(v) ==
  IF v.name = "detail"
    THEN IF v.error # Null THEN "error"
         ELSE IF v.isLoading THEN "loading"
         ELSE IF v.book # 0 THEN "populated" ELSE "empty"
    ELSE IF v.isLoading THEN "loading"
         ELSE IF v.error # Null THEN "error"
         ELSE IF Len(v.books) = 0 THEN "empty" ELSE "populated"

\* The buttons the rendered error block holds.
Offered(v) ==
  IF ViewState(v) # "error" THEN {}
  ELSE IF v.name = "detail" THEN {"return-to-list", "dismiss"} ELSE {}

\* The route turns to the book list: BookList's refs, and onMounted's
\* fetchBooks().
OpenList ==
  /\ view.name # "list"
  /\ view' = StartFetch([NoView EXCEPT !.name = "list", !.isLoading = TRUE])
  /\ UNCHANGED <<storage, failing, readingState, errorHistory, fresh, last,
                 kanbanVars, profile>>

\* The route turns to the kanban view: its refs, and onMounted's
\* fetchAllBooks().
OpenKanban ==
  /\ view.name # "kanban"
  /\ view' = StartFetchAll([NoView EXCEPT !.name = "kanban",
                                          !.isLoading = TRUE])
  /\ UNCHANGED <<storage, failing, readingState, errorHistory, fresh, last,
                 kanbanVars, profile>>

\* The route turns to /books/:id: useBookDetail's refs, and the immediate
\* watcher's fetchBook().
OpenDetail(id) ==
  /\ view.name # "detail"
  /\ view' = StartFetchBook([NoView EXCEPT !.name = "detail", !.bookId = id])
  /\ UNCHANGED <<storage, failing, readingState, errorHistory, fresh, last,
                 kanbanVars, profile>>

\* watch(bookId): the route's id changes while the detail view stays, and
\* fetchBook runs for the new id.
ChangeBookId(id) ==
  /\ view.name = "detail"
  /\ id # view.bookId
  /\ id > 0 => view.inflight < MaxInFlight
  /\ view' = StartFetchBook([view EXCEPT !.bookId = id])
  /\ UNCHANGED <<storage, failing, readingState, errorHistory, fresh, last,
                 kanbanVars, profile>>

\* The delay handleSearch gives setTimeout, in ms.
Debounce(name) == IF name = "kanban" THEN 300 ELSE 200

clearTimeoutNoop(timers, id) == timers

\* window.clearTimeout(id): the timer is dropped if it is still pending.
clearTimeout(timers, id) == {t \in timers : t.id # id}

\* window.setTimeout's return value: an id no pending timer has.
NextTimerId(timers) ==
  CHOOSE id \in 1..(MaxTimers + 1) :
    /\ \A t \in timers : t.id # id
    /\ \A other \in 1..(id - 1) : \E t \in timers : t.id = other

\* handleSearch(event): searchTerm takes the input's value, the pending
\* timeout is cleared and a new one is set.
handleSearch(value) ==
  /\ view.name \in {"list", "kanban"}
  /\ LET cleared == IF view.debounceTimeout # 0
                      THEN clearTimeout(view.timers, view.debounceTimeout)
                      ELSE view.timers
         id == NextTimerId(cleared)
     IN /\ Cardinality(cleared) < MaxTimers
        /\ view' = [view EXCEPT
                      !.searchTerm = value,
                      !.timers = cleared \cup
                                   {[id |-> id, left |-> Debounce(view.name)]},
                      !.debounceTimeout = id,
                      !.sinceInput = 0,
                      !.lastInput = value,
                      !.op = "input"]
  /\ UNCHANGED <<storage, failing, readingState, errorHistory, fresh, last,
                 kanbanVars, profile>>

\* Time passes while a timer is pending: d ms, no further than the first
\* timer that comes due. sinceInput is the time since the last input event,
\* counted up to the longest delay.
Tick(d) ==
  /\ view.timers # {}
  /\ \A t \in view.timers : t.left >= d
  /\ view' = [view EXCEPT
                !.timers = {[t EXCEPT !.left = @ - d] : t \in view.timers},
                !.sinceInput = IF @ + d > 300 THEN 300 ELSE @ + d,
                !.op = "tick"]
  /\ UNCHANGED <<storage, failing, readingState, errorHistory, fresh, last,
                 kanbanVars, profile>>

\* handleSearch's timeout fires: the list goes back to page 1 and fetches;
\* the kanban view fetches all books.
SearchFires ==
  /\ view.name \in {"list", "kanban"}
  /\ view.inflight < MaxInFlight
  /\ \E t \in view.timers :
       /\ t.left = 0
       /\ LET fired == [view EXCEPT !.timers = @ \ {t}, !.currentPage = 1,
                                    !.op = "search"]
          IN view' = IF view.name = "kanban" THEN StartFetchAll(fired)
                                             ELSE StartFetch(fired)
  /\ UNCHANGED <<storage, failing, readingState, errorHistory, fresh, last,
                 kanbanVars, profile>>

\* goToPage(page), from the pagination bar of the populated list.
goToPage(page) ==
  /\ view.name = "list"
  /\ ViewState(view) = "populated"
  /\ view.inflight < MaxInFlight
  /\ page >= 1 /\ page <= view.totalPages /\ page # view.currentPage
  /\ view' = StartFetch([view EXCEPT !.currentPage = page,
                                     !.op = "goToPage"])
  /\ UNCHANGED <<storage, failing, readingState, errorHistory, fresh, last,
                 kanbanVars, profile>>

\* The sizes the page size selector offers.
pageSizeOptions == {5, 10, 50, 100}

\* changePageSize(event), from the selector of the populated list.
changePageSize(newSize) ==
  /\ view.name = "list"
  /\ ViewState(view) = "populated"
  /\ view.inflight < MaxInFlight
  /\ newSize # view.pageSize
  /\ view' = StartFetch([view EXCEPT !.pageSize = newSize, !.currentPage = 1,
                                     !.op = "changePageSize"])
  /\ UNCHANGED <<storage, failing, readingState, errorHistory, fresh, last,
                 kanbanVars, profile>>

\* The words typed into the search box.
SearchTerms == {"", "a", "zz"}

\* A server whose catalogue does not change: every book matches the empty
\* term, all but the first five match "a", none matches another term.
Matches(term) ==
  CASE term = "" -> MaxItems
    [] term = "a" -> MaxItems - 5
    [] OTHER -> 0

\* The books of the page a request asks for: json-server's _page and _limit
\* over the matching books, nothing beyond the last page.
ServerBooks(request) ==
  LET n == Matches(request.term)
      first == (request.page - 1) * request.limit + 1
      end == IF request.page * request.limit < n
               THEN request.page * request.limit ELSE n
  IN [i \in 1..(IF end >= first THEN end - first + 1 ELSE 0) |->
        (MaxItems - n) + first + i - 1]

\* The same for a catalogue of totalItems books, whatever the term.
CatalogueBooks(totalItems, request) ==
  LET first == (request.page - 1) * request.limit + 1
      end == IF request.page * request.limit < totalItems
               THEN request.page * request.limit ELSE totalItems
  IN [i \in 1..(IF end >= first THEN end - first + 1 ELSE 0) |->
        first + i - 1]

\* An entry of the pagination bar: a page number, or the string '...'.
Page(n) == [kind |-> "page", page |-> n]

Ellipsis == [kind |-> "...", page |-> 0]

\* for (let i = from; i <= to; i++) range.push(i)
PageRun(from, to) ==
  [i \in 1..(IF to >= from THEN to - from + 1 ELSE 0) |-> Page(from + i - 1)]

paginationRangeNoLeadingEllipsis(totalPages, currentPage) ==
  IF totalPages <= 5
    THEN PageRun(1, totalPages)
    ELSE LET start0 == IF currentPage - 1 > 2 THEN currentPage - 1 ELSE 2
             end0 == IF currentPage + 1 < totalPages - 1
                       THEN currentPage + 1 ELSE totalPages - 1
             end == IF currentPage <= 2 THEN 4 ELSE end0
             start == IF currentPage > 2 /\ currentPage >= totalPages - 1
                        THEN totalPages - 3 ELSE start0
         IN <<Page(1)>>
              \o PageRun(start, end)
              \o (IF end < totalPages - 1 THEN <<Ellipsis>> ELSE <<>>)
              \o (IF totalPages > 1 THEN <<Page(totalPages)>> ELSE <<>>)

\* paginationRange: every page when there are at most maxVisiblePages = 5;
\* else page 1, the pages from start to end around currentPage, the last
\* page, and '...' where start or end leaves a gap.
paginationRange(totalPages, currentPage) ==
  IF totalPages <= 5
    THEN PageRun(1, totalPages)
    ELSE LET start0 == IF currentPage - 1 > 2 THEN currentPage - 1 ELSE 2
             end0 == IF currentPage + 1 < totalPages - 1
                       THEN currentPage + 1 ELSE totalPages - 1
             end == IF currentPage <= 2 THEN 4 ELSE end0
             start == IF currentPage > 2 /\ currentPage >= totalPages - 1
                        THEN totalPages - 3 ELSE start0
         IN <<Page(1)>>
              \o (IF start > 2 THEN <<Ellipsis>> ELSE <<>>)
              \o PageRun(start, end)
              \o (IF end < totalPages - 1 THEN <<Ellipsis>> ELSE <<>>)
              \o (IF totalPages > 1 THEN <<Page(totalPages)>> ELSE <<>>)

\* A click on the i-th entry of the pagination bar, a page number:
\* goToPage(Number(page)).
PageClick(i) ==
  /\ view.totalPages > 1
  /\ i \in 1..Len(paginationRange(view.totalPages, view.currentPage))
  /\ paginationRange(view.totalPages, view.currentPage)[i].kind = "page"
  /\ goToPage(paginationRange(view.totalPages, view.currentPage)[i].page)

ServerAnswer(request) == Ok(ServerBooks(request), Matches(request.term))

\* fetchBooks from await getBooks(params) on: the result is taken over; when
\* the current page lies beyond the last one, the page is set back and
\* fetchBooks runs again, else isLoading is dropped.
ListResponse(i, response) ==
  /\ view.name = "list"
  /\ i \in 1..Len(view.pending)
  /\ LET result == getBooks(view.pending[i], response)
         again == view.currentPage > result.totalPages /\ result.totalPages > 0
     IN view' = [view EXCEPT
                   !.books = result.books,
                   !.totalItems = result.totalItems,
                   !.totalPages = result.totalPages,
                   !.currentPage = IF again THEN result.totalPages ELSE @,
                   !.isLoading = again,
                   !.error = IF again THEN Null ELSE @,
                   !.inflight = IF again THEN @ ELSE @ - 1,
                   !.pending =
                     IF again
                       THEN Append(RemoveAt(@, i),
                                   Request(0, result.totalPages, view.pageSize,
                                           view.searchTerm))
                       ELSE RemoveAt(@, i),
                   !.issued =
                     IF again
                       THEN Request(0, result.totalPages, view.pageSize,
                                    view.searchTerm)
                       ELSE @,
                   !.raced = IF again THEN Len(view.pending) > 1 ELSE @,
                   !.answered = view.pending[i],
                   !.op = IF again THEN "again" ELSE "response",
                   !.lastOutcome = response.kind]
  /\ UNCHANGED <<storage, failing, readingState, errorHistory, fresh, last,
                 kanbanVars, profile>>

\* fetchAllBooks from await getBooks(params) on.
KanbanResponse(i, response) ==
  /\ view.name = "kanban"
  /\ i \in 1..Len(view.pending)
  /\ view' = [view EXCEPT !.books = getBooks(view.pending[i], response).books,
                          !.isLoading = FALSE,
                          !.inflight = @ - 1,
                          !.pending = RemoveAt(@, i),
                          !.answered = view.pending[i],
                          !.op = "response",
                          !.lastOutcome = response.kind]
  /\ UNCHANGED <<storage, failing, readingState, errorHistory, fresh, last,
                 kanbanVars, profile>>

\* fetchBook from await fetch(...) on, for the i-th request in flight:
\* requests settle in any order.
DetailResponse(i, response) ==
  /\ view.name = "detail"
  /\ i \in 1..Len(view.pending)
  /\ response \in BookResponses(view.pending[i].id)
  /\ view' = [view EXCEPT
                !.book = IF response.kind = "ok" THEN response.books[1] ELSE 0,
                !.error = IF response.kind = "ok"
                            THEN @ ELSE FetchBookError(response.kind),
                !.isLoading = FALSE,
                !.inflight = @ - 1,
                !.pending = RemoveAt(@, i),
                !.lastOutcome = response.kind]
  /\ UNCHANGED <<storage, failing, readingState, errorHistory, fresh, last,
                 kanbanVars, profile>>

\* The error block's "Return to Book List" button: router.push('/').
ReturnToList ==
  /\ "return-to-list" \in Offered(view)
  /\ view' = StartFetch([NoView EXCEPT !.name = "list", !.isLoading = TRUE])
  /\ UNCHANGED <<storage, failing, readingState, errorHistory, fresh, last,
                 kanbanVars, profile>>

----------------------------------------------------------------------------
(* composables/useUserProfile.ts and components/ProfileEditor.vue *)

\* The lengths validateName compares name.length with.
MinNameLength == 2
MaxNameLength == 50

\* A string of n characters.
Chars(n) == [i \in 1..n |-> "a"]

\* Names typed into the form: empty, and on both sides of each limit.
Names ==
  {Chars(n) : n \in {0, MinNameLength - 1, MinNameLength, MaxNameLength - 1,
                     MaxNameLength, MaxNameLength + 1}}

\* Email addresses typed into the form, character by character.
Emails ==
  {<<>>,
   <<"a", "@", "b", ".", "c">>,
   <<"a", "@", "b">>,
   <<"a", " ", "@", "b", ".", "c">>}

User(name, email) == [name |-> name, email |-> email]

\* { name: 'John Doe', email: 'john.doe@example.com' }
DefaultUser ==
  User(<<"J", "o", "h", "n", " ", "D", "o", "e">>,
       <<"j", "o", "h", "n", ".", "d", "o", "e", "@", "e", "x", "a", "m", "p",
         "l", "e", ".", "c", "o", "m">>)

\* No user_profile entry in localStorage.
NoStoredUser == [present |-> FALSE, user |-> DefaultUser]

StoredUser(user) == [present |-> TRUE, user |-> user]

Whitespace == {" "}

\* /^[^\s@]+@[^\s@]+\.[^\s@]+$/.test(email)
emailRegexTest(email) ==
  \E at, dot \in 1..Len(email) :
    /\ email[at] = "@"
    /\ email[dot] = "."
    /\ 1 < at /\ at + 1 < dot /\ dot < Len(email)
    /\ \A i \in (1..Len(email)) \ {at} : email[i] \notin Whitespace \cup {"@"}

validateEmail(email) ==
  IF email = <<>> THEN "Email is required"
  ELSE IF ~emailRegexTest(email) THEN "Please enter a valid email address"
  ELSE Null

validateName(name) ==
  IF name = <<>> THEN "Name is required"
  ELSE IF Len(name) < MinNameLength
    THEN "Name must be at least 2 characters long"
  ELSE IF Len(name) > MaxNameLength
    THEN "Name must be less than 50 characters"
  ELSE Null

ValidationError(field, message) == [field |-> field, message |-> message]

validateUserFirstOnly(userData) ==
  IF validateName(userData.name) # Null
    THEN <<ValidationError("name", validateName(userData.name))>>
  ELSE IF validateEmail(userData.email) # Null
    THEN <<ValidationError("email", validateEmail(userData.email))>>
  ELSE <<>>

validateUser(userData) ==
  (IF validateName(userData.name) # Null
     THEN <<ValidationError("name", validateName(userData.name))>>
     ELSE <<>>)
  \o (IF validateEmail(userData.email) # Null
        THEN <<ValidationError("email", validateEmail(userData.email))>>
        ELSE <<>>)

NoErrors == [field \in {} |-> ""]

\* result.errors.forEach(error => errors.value[error.field] = error.message)
ErrorsOf(list) ==
  [field \in {list[i].field : i \in 1..Len(list)} |->
     (CHOOSE message \in {list[i].message : i \in 1..Len(list)} :
        \E i \in 1..Len(list) :
          /\ list[i].field = field /\ list[i].message = message
          /\ \A j \in (i + 1)..Len(list) : list[j].field # field)]

NoResult == [success |-> FALSE, errors |-> <<>>]

\* The module is loaded and the editor set up: currentUser, the form that
\* copies it, and no errors.
ProfileOf(stored) ==
  [currentUser |-> IF stored.present THEN stored.user ELSE DefaultUser,
   stored |-> stored,
   formData |-> IF stored.present THEN stored.user ELSE DefaultUser,
   errors |-> NoErrors,
   isSubmitting |-> FALSE,
   op |-> "none",
   result |-> NoResult]

InitialProfile == ProfileOf(NoStoredUser)

\* The page is loaded again: the module reads user_profile.
LoadProfile ==
  /\ profile' = ProfileOf(profile.stored)
  /\ UNCHANGED <<storage, failing, readingState, errorHistory, fresh, last,
                 kanbanVars, view>>

\* v-model: the user types into a field of the form.
EditForm(userData) ==
  /\ profile' = [profile EXCEPT !.formData = userData, !.op = "edit"]
  /\ UNCHANGED <<storage, failing, readingState, errorHistory, fresh, last,
                 kanbanVars, view>>

\* validateField(field), on blur
validateField(field) ==
  /\ LET message == IF field = "name" THEN validateName(profile.formData.name)
                                     ELSE validateEmail(profile.formData.email)
     IN profile' =
          [profile EXCEPT
             !.errors =
               IF message # Null
                 THEN [f \in DOMAIN @ \cup {field} |->
                         IF f = field THEN message ELSE @[f]]
                 ELSE [f \in DOMAIN @ \ {field} |-> @[f]],
             !.op = "validateField." \o field]
  /\ UNCHANGED <<storage, failing, readingState, errorHistory, fresh, last,
                 kanbanVars, view>>

\* handleSubmit up to the timeout in updateProfile: the submit button is
\* enabled, the errors are cleared, and updateProfile validates the form; a
\* form that fails comes back at once with its errors.
handleSubmit ==
  /\ ~profile.isSubmitting
  /\ DOMAIN profile.errors = {}
  /\ LET validationErrors == validateUser(profile.formData)
     IN profile' =
          IF Len(validationErrors) > 0
            THEN [profile EXCEPT
                    !.errors = ErrorsOf(validationErrors),
                    !.result = [success |-> FALSE, errors |-> validationErrors],
                    !.op = "submit"]
            ELSE [profile EXCEPT !.errors = NoErrors, !.isSubmitting = TRUE,
                                 !.result = NoResult, !.op = "submit"]
  /\ UNCHANGED <<storage, failing, readingState, errorHistory, fresh, last,
                 kanbanVars, view>>

\* updateProfile after the timeout, and the rest of handleSubmit: the user
\* becomes a copy of userData, which is the form as it is by now, and is
\* written to localStorage; a setItem that throws is caught.
updateProfile ==
  /\ profile.isSubmitting
  /\ LET wrote == "setItem" \notin failing
         general == <<ValidationError("general",
                        "Failed to update profile. Please try again.")>>
     IN profile' =
          [profile EXCEPT
             !.currentUser = profile.formData,
             !.stored = IF wrote THEN StoredUser(profile.formData) ELSE @,
             !.isSubmitting = FALSE,
             !.errors = IF wrote THEN @ ELSE ErrorsOf(general),
             !.result = IF wrote THEN [success |-> TRUE, errors |-> <<>>]
                                 ELSE [success |-> FALSE, errors |-> general],
             !.op = "update"]
  /\ UNCHANGED <<storage, failing, readingState, errorHistory, fresh, last,
                 kanbanVars, view>>

----------------------------------------------------------------------------
InitKanban ==
  /\ mounted = FALSE
  /\ books = <<>>
  /\ columns = NoColumns
  /\ dragColumns = NoColumns
  /\ drag = NoDrag
  /\ view = NoView
  /\ profile = InitialProfile

\* The application: the detail view reads and sets a book's status, the
\* kanban view mounts the board over a fetched list and cards are dragged.
Init ==
  /\ storage = NoEntry
  /\ failing = {}
  /\ readingState = Obj(EmptyMap)
  /\ errorHistory = <<>>
  /\ fresh = TRUE
  /\ last = NoCall
  /\ InitKanban

Next ==
  \/ UseReadingState
  \/ \E b \in BookIds : GetBookStatus(b)
  \/ \E b \in BookIds, s \in Statuses : SetBookStatus(b, s)
  \/ \E bookList \in BookLists : KanbanMount(bookList)
  \/ KanbanUnmount
  \/ \E source \in Statuses, target \in Statuses,
        oldIndex \in 1..NumBooks, newIndex \in 1..NumBooks :
       DragEnd(source, oldIndex, target, newIndex)
  \/ \E source \in Statuses, target \in Statuses, oldIndex \in 1..NumBooks,
        fault \in Faults :
       MalformedEnd(source, oldIndex, target, fault)

Spec == Init /\ [][Next]_vars

----------------------------------------------------------------------------
\* The Status Service called directly, as the unit tests and the detail view
\* call it, over any stored map.
InitStatus ==
  /\ storage \in {NoEntry} \cup {Entry(m) : m \in StatusMaps}
  /\ failing = {}
  /\ readingState = Obj(EmptyMap)
  /\ errorHistory = <<>>
  /\ fresh = TRUE
  /\ last = NoCall
  /\ InitKanban

NextStatus ==
  \/ UseReadingState
  \/ LoadState
  \/ ClearState
  \/ GetAllStatuses
  \/ \E b \in BookIds : GetBookStatus(b)
  \/ \E b \in BookIds : RemoveBookStatus(b)
  \/ \E b \in BookIds, s \in Statuses : SetBookStatus(b, s)

SpecStatus == InitStatus /\ [][NextStatus]_vars

----------------------------------------------------------------------------
\* The Status Service over a storage that misbehaves: the entry is missing,
\* unparseable or of the wrong shape, and some of the Storage methods throw
\* (storage disabled, quota used up) for the whole session.
InitFaults ==
  /\ storage \in {NoEntry, MalformedEntry} \cup WrongShapeEntries
  /\ failing \in SUBSET StorageMethods
  /\ readingState = Obj(EmptyMap)
  /\ errorHistory = <<>>
  /\ fresh = TRUE
  /\ last = NoCall
  /\ InitKanban

NextFaults ==
  \/ UseReadingState
  \/ LoadState
  \/ ClearState
  \/ GetAllStatuses
  \/ \E b \in BookIds : GetBookStatus(b)
  \/ \E b \in BookIds : RemoveBookStatus(b)
  \/ \E b \in BookIds, s \in Statuses : SetBookStatus(b, s)
  \/ \E bookList \in BookLists :
       SaveState(booksToColumns(bookList, readingState.map))

SpecFaults == InitFaults /\ [][NextFaults]_vars

----------------------------------------------------------------------------
\* The column projection applied to any book list and any map of records.
\* A list holds each id once at most, in any order.
BookSequences ==
  UNION {{list \in [1..n -> BookIds] :
            \A i, j \in 1..n : i # j => list[i] # list[j]} : n \in 0..NumBooks}

InitProjection ==
  /\ storage = NoEntry
  /\ failing = {}
  /\ readingState \in {Obj(m) : m \in StatusMaps}
  /\ errorHistory = <<>>
  /\ fresh = TRUE
  /\ last = NoCall
  /\ mounted = FALSE
  /\ books \in BookSequences
  /\ columns = NoColumns
  /\ dragColumns = NoColumns
  /\ drag = NoDrag
  /\ view = NoView
  /\ profile = InitialProfile

NextProjection == UpdateColumns

SpecProjection == InitProjection /\ [][NextProjection]_vars

----------------------------------------------------------------------------
\* Two tabs on one localStorage: this tab with its Status Service instance
\* and its board of the whole catalogue, and the writes of another tab.
InitTabs == Init

\* The books whose status the two tabs set: the first and the last of the
\* catalogue.
TabBooks == {1, NumBooks}

NextTabs ==
  \/ \E b \in TabBooks, s \in Statuses : SetBookStatus(b, s)
  \/ \E b \in TabBooks, s \in Statuses : OtherTabSetBookStatus(b, s)
  \/ KanbanMount(Ascending(BookIds))
  \/ \E source, target \in Statuses, oldIndex, newIndex \in 1..NumBooks :
       DragEnd(source, oldIndex, target, newIndex)

SpecTabs == InitTabs /\ [][NextTabs]_vars

----------------------------------------------------------------------------
\* The views that fetch, over a server that answers each request with a
\* page of books or fails.
InitFetch ==
  /\ storage = NoEntry
  /\ failing = {}
  /\ readingState = Obj(EmptyMap)
  /\ errorHistory = <<>>
  /\ fresh = TRUE
  /\ last = NoCall
  /\ InitKanban

NextFetch ==
  \/ OpenList
  \/ OpenKanban
  \/ \E id \in 0..NumBooks : OpenDetail(id)
  \/ \E value \in {"a"} : handleSearch(value)
  \/ \E d \in {100} : Tick(d)
  \/ SearchFires
  \/ \E page \in 1..MaxItems : goToPage(page)
  \/ \E i \in 1..MaxInFlight, response \in BooksResponses :
       ListResponse(i, response)
  \/ \E i \in 1..MaxInFlight, response \in BooksResponses :
       KanbanResponse(i, response)
  \/ \E i \in 1..MaxInFlight, response \in Responses :
       DetailResponse(i, response)
  \/ ReturnToList

SpecFetch == InitFetch /\ [][NextFetch]_vars

----------------------------------------------------------------------------
\* The profile editor, with a localStorage that takes writes or throws on
\* them.
InitProfile ==
  /\ storage = NoEntry
  /\ failing \in {{}, {"setItem"}}
  /\ readingState = Obj(EmptyMap)
  /\ errorHistory = <<>>
  /\ fresh = TRUE
  /\ last = NoCall
  /\ InitKanban

NextProfile ==
  \/ LoadProfile
  \/ \E name \in Names : EditForm(User(name, profile.formData.email))
  \/ \E email \in Emails : EditForm(User(profile.formData.name, email))
  \/ \E field \in {"name", "email"} : validateField(field)
  \/ handleSubmit
  \/ updateProfile

SpecProfile == InitProfile /\ [][NextProfile]_vars

----------------------------------------------------------------------------
\* The book list over a server that answers every request from a catalogue
\* that does not change; requests settle in any order.
InitList == InitFetch

NextList ==
  \/ OpenList
  \/ \E value \in SearchTerms : handleSearch(value)
  \/ \E d \in {100, 200} : Tick(d)
  \/ SearchFires
  \/ \E page \in 1..MaxItems : goToPage(page)
  \/ \E newSize \in pageSizeOptions : changePageSize(newSize)
  \/ \E i \in 1..Len(view.pending) :
       ListResponse(i, ServerAnswer(view.pending[i]))

SpecList == InitList /\ [][NextList]_vars

----------------------------------------------------------------------------
\* The search boxes of the book list and of the kanban view: input events,
\* the passing of time and the timers' callbacks.
InitSearch == InitFetch

NextSearch ==
  \/ OpenList
  \/ OpenKanban
  \/ \E value \in SearchTerms : handleSearch(value)
  \/ \E d \in {100, 200} : Tick(d)
  \/ SearchFires
  \/ \E i \in 1..Len(view.pending) :
       ListResponse(i, ServerAnswer(view.pending[i]))
  \/ \E i \in 1..Len(view.pending) :
       KanbanResponse(i, ServerAnswer(view.pending[i]))

SpecSearch == InitSearch /\ [][NextSearch]_vars

----------------------------------------------------------------------------
\* The pagination bar of a populated book list: the catalogue holds five
\* books per page of the list, for 1..MaxPages pages, and the list shows any
\* of its pages; a page number is clicked and the page arrives.
InitPagination ==
  /\ storage = NoEntry
  /\ failing = {}
  /\ readingState = Obj(EmptyMap)
  /\ errorHistory = <<>>
  /\ fresh = TRUE
  /\ last = NoCall
  /\ mounted = FALSE
  /\ books = <<>>
  /\ columns = NoColumns
  /\ dragColumns = NoColumns
  /\ drag = NoDrag
  /\ profile = InitialProfile
  /\ \E totalPages \in 1..MaxPages :
       \E currentPage \in 1..totalPages :
         view = [NoView EXCEPT
                   !.name = "list",
                   !.isLoading = FALSE,
                   !.pageSize = 5,
                   !.totalItems = 5 * totalPages,
                   !.totalPages = totalPages,
                   !.currentPage = currentPage,
                   !.books = CatalogueBooks(5 * totalPages,
                                            Request(0, currentPage, 5, ""))]

NextPagination ==
  \/ \E i \in 1..(MaxPages + 2) : PageClick(i)
  \/ \E i \in 1..Len(view.pending) :
       ListResponse(i, Ok(CatalogueBooks(view.totalItems, view.pending[i]),
                          view.totalItems))

SpecPagination == InitPagination /\ [][NextPagination]_vars

----------------------------------------------------------------------------
\* useBookDetail under a route whose id changes, over a server that answers
\* each request with the book or fails; requests settle in any order.
InitDetail == InitFetch

NextDetail ==
  \/ \E id \in (-1)..NumBooks : OpenDetail(id)
  \/ \E id \in (-1)..NumBooks : ChangeBookId(id)
  \/ \E i \in 1..MaxInFlight, response \in Responses :
       DetailResponse(i, response)

SpecDetail == InitDetail /\ [][NextDetail]_vars

----------------------------------------------------------------------------
(* Properties *)

\* The status, and the order, a book has under a stored map: a book without
\* a record counts as to-read, order 0.
EffectiveStatus(state, b) ==
  IF b \in DOMAIN state THEN state[b].status ELSE "to-read"

EffectiveOrder(state, b) ==
  IF b \in DOMAIN state THEN state[b].order ELSE 0

\* The map the stored entry holds.
Stored(st) == loadReadingState(st, {}).map

\* The step is one of the board's handleDragEnd runs.
BoardStep == mounted /\ mounted'

\* C1: getBookStatus(bookId) called right after setBookStatus(bookId, s)
\* returns s, whatever the map held before, on the same useReadingState
\* instance or on a new one.
C1_SetThenGet ==
  (last.op = "getBookStatus" /\ last.prev.op = "setBookStatus")
    => last.retStatus = last.prev.status

\* A new instance read back "read" for a book whose record the set replaced.
C1_Witness ==
  /\ last.op = "getBookStatus"
  /\ last.prev.op = "setBookStatus"
  /\ last.prev.hadRecord
  /\ last.newInstance
  /\ last.retStatus = "read"

\* C2: getBookStatus(bookId) called right after removeBookStatus(bookId)
\* returns undefined, whether or not the book had a record.
C2_RemoveThenGet ==
  (last.op = "getBookStatus" /\ last.prev.op = "removeBookStatus")
    => last.retStatus = Undefined

\* A record that was there was removed and the read found none.
C2_Witness ==
  /\ last.op = "getBookStatus"
  /\ last.prev.op = "removeBookStatus"
  /\ last.prev.hadRecord
  /\ last.retStatus = Undefined
  /\ storage.text # {}

\* C3: a cross-column reorder event leaves the stored map with the moved
\* book's status equal to the target column, and every other book of the
\* board with the status it had before the event.
C3_CrossColumnMove ==
  [][(BoardStep /\ drag'.kind = "handled" /\ drag'.source # drag'.target) =>
       LET before == Stored(storage)
           after == Stored(storage')
       IN /\ drag'.book \in DOMAIN after
          /\ after[drag'.book].status = drag'.target
          /\ \A i \in 1..Len(books) :
               books[i] # drag'.book =>
                 EffectiveStatus(after, books[i])
                   = EffectiveStatus(before, books[i])]_vars

\* C4: a reorder on the board neither removes nor alters the record of a book
\* that is not on the board.
C4_OffBoardRecordsKept ==
  [][BoardStep =>
       LET before == Stored(storage)
           after == Stored(storage')
           onBoard == {books[i] : i \in 1..Len(books)}
       IN \A b \in DOMAIN before \ onBoard :
            b \in DOMAIN after /\ after[b] = before[b]]_vars

\* C5: once the board is mounted, every book is in the column of its stored
\* status (to-read without a record), and each column is in ascending stored
\* order.
C5_MountShowsStoredStatus ==
  (mounted /\ drag.kind = "none") =>
    LET state == Stored(storage)
    IN \A c \in Statuses :
         /\ \A i \in 1..Len(columns[c]) :
              EffectiveStatus(state, columns[c][i].id) = c
         /\ \A i, j \in 1..Len(columns[c]) :
              i < j => EffectiveOrder(state, columns[c][i].id)
                         <= EffectiveOrder(state, columns[c][j].id)

\* C6: an end event that lacks from, to, item, a column id or a usable book
\* id is ignored: the stored entry is unchanged, nothing is saved and no
\* status-change notification is sent.
C6_MalformedIgnored ==
  [][(BoardStep /\ drag'.fault # "none") =>
       /\ storage' = storage
       /\ readingState' = readingState
       /\ drag'.kind = "ignored"
       /\ drag'.saves = 0
       /\ drag'.emits = <<>>]_vars

\* An event whose book id parses to 0 was ignored on a board with a stored map.
C6_Witness ==
  /\ mounted
  /\ drag.kind = "ignored"
  /\ drag.fault = "zero-book-id"
  /\ storage.present
  /\ storage.text # {}

\* C7: a same-column reorder event changes the stored status of no book of
\* the board, and leaves the stored order of every book in the other two
\* columns as it was.
C7_SameColumnMove ==
  [][(BoardStep /\ drag'.kind = "handled" /\ drag'.source = drag'.target) =>
       LET before == Stored(storage)
           after == Stored(storage')
       IN /\ \A i \in 1..Len(books) :
               EffectiveStatus(after, books[i])
                 = EffectiveStatus(before, books[i])
          /\ \A c \in Statuses \ {drag'.source} :
               \A i \in 1..Len(columns'[c]) :
                 EffectiveOrder(after, columns'[c][i].id)
                   = EffectiveOrder(before, columns'[c][i].id)]_vars

\* C8: after a valid reorder event every card of the source and the target
\* column has order equal to its 0-based place in the rendered list, and the
\* stored map holds that order.
C8_OrderIsIndex ==
  drag.kind = "handled" =>
    LET state == Stored(storage)
    IN \A c \in {drag.source, drag.target} :
         \A i \in 1..Len(columns[c]) :
           /\ columns[c][i].order = i - 1
           /\ columns[c][i].id \in DOMAIN state
           /\ state[columns[c][i].id].order = i - 1

\* C9: the status-change notification is sent exactly once for a cross-column
\* move whose book was stored under the target column, and never otherwise;
\* its arguments are the moved book and that book's stored status.
C9_NotifyOncePerMove ==
  LET state == Stored(storage)
      moved == /\ drag.kind = "handled"
               /\ drag.source # drag.target
               /\ drag.book \in DOMAIN state
               /\ state[drag.book].status = drag.target
  IN /\ moved => drag.emits = <<<<drag.book, drag.target>>>>
     /\ drag.emits # <<>> =>
          /\ moved
          /\ Len(drag.emits) = 1
          /\ drag.emits[1] = <<drag.book, state[drag.book].status>>

C11_SetKeepsOrder ==
  [][(last'.op = "setBookStatus" /\ last'.hadRecord) =>
       LET before == Stored(storage)
           after == Stored(storage')
           b == last'.id
       IN /\ DOMAIN after = DOMAIN before
          /\ after[b] = [status |-> last'.status, order |-> before[b].order]
          /\ \A x \in DOMAIN before \ {b} : after[x] = before[x]
          /\ (last'.prev.op = "setBookStatus"
                /\ last'.prev.status = last'.status) =>
               storage' = storage]_vars

\* The same status was set twice in a row on a record of order 0 that stood
\* beside a record of a larger order.
C11_Witness ==
  /\ last.op = "setBookStatus"
  /\ last.hadRecord
  /\ last.prev.op = "setBookStatus"
  /\ last.prev.hadRecord
  /\ last.prev.status = last.status
  /\ Stored(storage)[last.id].order = 0
  /\ \E x \in DOMAIN Stored(storage) : Stored(storage)[x].order > 0

\* The entry's text parses, but not to a map of records.
WrongShape(st) ==
  st.present /\ st.kind \in {"null", "number", "string", "array"}

\* The step is a call of a Status Service function.
ServiceStep == ~mounted /\ ~mounted' /\ ~fresh'

\* The context a Status Service function hands to safeExecute.
ContextOf(op) ==
  CASE op = "loadState" -> "useReadingState.loadState"
    [] op = "saveState" -> "useReadingState.saveState"
    [] op = "clearState" -> "useReadingState.clearState"
    [] op = "getBookStatus" -> "useReadingState.getBookStatus"
    [] op = "setBookStatus" -> "useReadingState.setBookStatus"
    [] op = "removeBookStatus" -> "useReadingState.removeBookStatus"
    [] op = "getAllStatuses" -> "useReadingState.getAllStatuses"
    [] OTHER -> "unknown"

\* A string that stands where a map's value is looked for.
JSString(str) == [string |-> str]

\* C12: getAllStatuses() returns a map with exactly the ids that have a
\* stored record, and the value at each id is that book's status string.
C12_AllStatusesAreStrings ==
  last.op = "getAllStatuses" =>
    /\ DOMAIN last.retMap.map = DOMAIN Stored(storage)
    /\ \A b \in DOMAIN last.retMap.map :
         last.retMap.map[b] = JSString(Stored(storage)[b].status)

\* C13: loadReadingState() returns an empty map whenever the entry is
\* missing, is not parseable, or parses to something that is no map of
\* records (null, a number, a string, an array); getAllStatuses returns
\* loadReadingState()'s value as it is.
C13_LoadFallsBackToEmpty ==
  (last.op = "getAllStatuses"
     /\ (~storage.present \/ storage.kind = "malformed" \/ WrongShape(storage)))
    => last.retMap = Obj(EmptyMap)

\* C14: when setItem threw during setBookStatus or removeBookStatus, a
\* getBookStatus of the same book on the same instance right after it, itself
\* meeting no storage failure, does not throw and returns what the write
\* attempted: the status set, undefined for a removed record.
C14_MemoryAuthoritative ==
  (last.op = "getBookStatus" /\ ~last.newInstance /\ last.failed = {}
     /\ "setItem" \in last.prev.failed)
    => /\ ~last.threw
       /\ last.prev.op = "setBookStatus" => last.retStatus = last.prev.status
       /\ last.prev.op = "removeBookStatus" => last.retStatus = Undefined

\* C15: no Status Service call throws to its caller; a read that met a
\* storage failure, a missing entry or wrong-shape content returns undefined
\* (getBookStatus) or an empty map (loadState, getAllStatuses); a write whose
\* function threw or whose storage write failed leaves the entry as it was.
C15_NeverThrowsSafeFallback ==
  [][ServiceStep =>
       /\ ~last'.threw
       /\ (last'.failed # {} \/ ~storage.present \/ storage.kind = "malformed"
             \/ WrongShape(storage)) =>
            /\ last'.op = "getBookStatus" => last'.retStatus = Undefined
            /\ last'.op \in {"loadState", "getAllStatuses"} =>
                 last'.retMap = Obj(EmptyMap)
       /\ (last'.op \in {"saveState", "clearState", "setBookStatus",
                         "removeBookStatus"}
             /\ (last'.failed \cap {"setItem", "removeItem"} # {}
                   \/ errorHistory' # errorHistory)) =>
            storage' = storage]_vars

\* C16: a call during which a storage-layer failure occurred (getItem,
\* JSON.parse, setItem or removeItem threw) adds one entry with the call's
\* context to errorHistory, and returns to its caller.
C16_FailuresLogged ==
  [][(ServiceStep /\ last'.failed # {}) =>
       /\ ~last'.threw
       /\ errorHistory' = Append(errorHistory, ContextOf(last'.op))]_vars

\* The place of book b in the input list.
PlaceOf(b) == CHOOSE i \in 1..Len(books) : books[i] = b

\* C17: the projection of any book list B under any map M has the three
\* columns to-read, currently-reading and read, holds every book of B in
\* exactly one column and nothing else, and each book sits in the column of
\* its status in M, in to-read when M has no record of it, with readingStatus
\* saying the same.
C17_ProjectionRoundTrip ==
  last.op = "updateColumns" =>
    LET M == last.retMap.map
    IN /\ DOMAIN columns = {ColumnIds[i] : i \in 1..3}
       /\ Len(Cards(columns)) = Len(books)
       /\ \A i \in 1..Len(books) :
            /\ Cardinality({<<c, j>> \in Statuses \X (1..NumBooks) :
                              /\ j <= Len(columns[c])
                              /\ columns[c][j].id = books[i]}) = 1
            /\ \E j \in 1..Len(columns[EffectiveStatus(M, books[i])]) :
                 LET card == columns[EffectiveStatus(M, books[i])][j]
                 IN /\ card.id = books[i]
                    /\ card.readingStatus = EffectiveStatus(M, books[i])

\* A list of two books was projected under a map that holds a record of one
\* of them, not to-read, and a record of no book of the list's other member.
C17_Witness ==
  /\ last.op = "updateColumns"
  /\ Len(books) = 2
  /\ books[1] \in DOMAIN last.retMap.map
  /\ books[2] \notin DOMAIN last.retMap.map
  /\ last.retMap.map[books[1]].status = "read"
  /\ Len(columns["read"]) = 1
  /\ Len(columns["to-read"]) = 1

\* C18: each projected column is in ascending order of the books' order in M
\* (0 without a record), books of equal order stand as they stood in the input
\* list, and books 1 and 2 set to to-read with orders 1 and 2 are projected as
\* [book1, book2].
C18_SortedStable ==
  last.op = "updateColumns" =>
    LET M == last.retMap.map
    IN /\ \A c \in Statuses :
            /\ \A i \in 1..Len(columns[c]) :
                 columns[c][i].order = EffectiveOrder(M, columns[c][i].id)
            /\ \A i, j \in 1..Len(columns[c]) :
                 i < j =>
                   /\ columns[c][i].order <= columns[c][j].order
                   /\ columns[c][i].order = columns[c][j].order =>
                        PlaceOf(columns[c][i].id) < PlaceOf(columns[c][j].id)
       /\ (/\ books \in {<<1, 2>>, <<2, 1>>}
           /\ DOMAIN M = {1, 2}
           /\ M[1] = [status |-> "to-read", order |-> 1]
           /\ M[2] = [status |-> "to-read", order |-> 2]) =>
            /\ Len(columns["to-read"]) = 2
            /\ columns["to-read"][1].id = 1
            /\ columns["to-read"][2].id = 2

\* Book 2 stood before book 1 in the list, both had the order 1 in one
\* column, and the column holds them as [book2, book1].
C18_Witness ==
  /\ last.op = "updateColumns"
  /\ books = <<2, 1>>
  /\ \E c \in Statuses :
       /\ Len(columns[c]) = 2
       /\ columns[c][1].id = 2
       /\ columns[c][2].id = 1
       /\ columns[c][1].order = 1
       /\ columns[c][2].order = 1

\* C19: once a book-list fetch has failed (network error, 404 or 5xx) and no
\* other fetch is under way, the list view and the kanban view are in their
\* error state and show an error message.
C19_FetchFailureShowsError ==
  (view.name \in {"list", "kanban"} /\ view.lastOutcome \in FetchFailures
     /\ view.inflight = 0)
    => ViewState(view) = "error" /\ view.error # Null

\* C20: a view in its error state offers a retry or a way back; the detail
\* view offers "return to list" after a 404 and "retry" after any other
\* failed request.
C20_ErrorOffersRecovery ==
  ViewState(view) = "error" =>
    /\ Offered(view) \cap {"retry", "return-to-list"} # {}
    /\ (view.name = "detail" /\ view.lastOutcome = "404") =>
         "return-to-list" \in Offered(view)
    /\ (view.name = "detail" /\ view.lastOutcome \in {"500", "network"}) =>
         "retry" \in Offered(view)

\* The pieces an error message of the detail view is made of.
Fragments == {"", "Book ", ": 404", ": 500"}

\* message.includes(part)
Contains(message, part) ==
  \E before, after \in Fragments : message = before \o part \o after

\* C21: once the only fetch of a useBookDetail instance with a valid id has
\* settled, isLoading is false and exactly one of book and error is set: a 200
\* gives the book and no error, a 404 no book and an error containing
\* 'not found', any other status no book and an error containing 'HTTP error',
\* a rejected request no book and the rejection's error.
C21_SingleFetchSettles ==
  (view.name = "detail" /\ view.runs = 1 /\ view.bookId > 0
     /\ view.pending = <<>>) =>
    /\ ~view.isLoading
    /\ (view.book # 0) # (view.error # Null)
    /\ view.lastOutcome = "ok" =>
         view.book = view.bookId /\ view.error = Null
    /\ view.lastOutcome = "404" =>
         view.book = 0 /\ Contains(view.error, "not found")
    /\ view.lastOutcome = "500" =>
         view.book = 0 /\ Contains(view.error, "HTTP error")
    /\ view.lastOutcome = "network" =>
         view.book = 0 /\ view.error = RejectionError

\* The only fetch of an instance was answered with 404.
C21_Witness ==
  /\ view.name = "detail" /\ view.runs = 1 /\ view.bookId > 0
  /\ view.pending = <<>>
  /\ view.lastOutcome = "404"
  /\ view.error = "Book not found"

\* C22: whenever bookId comes to be not positive, on first use or by a change
\* from a loaded valid id, no request is issued and afterwards book is null,
\* isLoading is false and the error is 'Invalid book ID'.
C22_InvalidIdState ==
  [][(/\ view'.name = "detail"
      /\ view'.bookId <= 0
      /\ \/ view.name # "detail"
         \/ /\ view.bookId # view'.bookId
            /\ view.book = view.bookId /\ view.book # 0
            /\ view.pending = <<>>)
       => /\ view'.pending = <<>>
          /\ view'.book = 0
          /\ ~view'.isLoading
          /\ view'.error = "Invalid book ID"]_vars

\* C23: a change of bookId issues a fetch for the new id; once every fetch in
\* flight has settled without an error, book is the record of the current
\* bookId and isLoading is false; isLoading is true while a fetch is in flight.
C23_LatestIdWins ==
  (view.name = "detail" /\ view.bookId > 0) =>
    /\ (view.pending = <<>> /\ view.error = Null) =>
         view.book = view.bookId /\ ~view.isLoading
    /\ view.pending # <<>> => view.isLoading

\* What the other tab last wrote is still in storage.
OthersWriteKept(st) ==
  /\ last.id \in DOMAIN Stored(st)
  /\ Stored(st)[last.id].status = last.status

\* C24 as stated: when this tab writes (setBookStatus on another book, or a
\* kanban save) right after another tab's write, the other tab's change is no
\* longer in storage.
C24_LastWriterWins ==
  [][(/\ last.op = "otherTab.setBookStatus"
      /\ last'.op \in {"setBookStatus", "saveState"}
      /\ last'.id # last.id)
       => ~OthersWriteKept(storage')]_vars

\* C24 amended: a kanban save right after another tab's write stores the map
\* of this tab's board and nothing of the other tab's write; a setBookStatus
\* right after it stores its own record and keeps the other tab's write to
\* any other book.
C24_SaveOverwritesSetMerges ==
  [][(last.op = "otherTab.setBookStatus" /\ OthersWriteKept(storage)) =>
       /\ last'.op = "saveState" =>
            Stored(storage') = columnsToReadingState(columns')
       /\ last'.op = "setBookStatus" =>
            /\ Stored(storage')[last'.id].status = last'.status
            /\ last'.id # last.id =>
                 /\ OthersWriteKept(storage')
                 /\ Stored(storage')[last.id] = Stored(storage)[last.id]]_vars

\* This tab set book 2 right after the other tab had set book 1 to read, and
\* both records are in storage.
C24_Witness ==
  /\ last.op = "setBookStatus" /\ last.id = 2
  /\ last.prev.op = "otherTab.setBookStatus" /\ last.prev.id = 1
  /\ DOMAIN Stored(storage) = {1, 2}
  /\ Stored(storage)[1].status = "read"
  /\ Stored(storage)[2].status = "currently-reading"

\* The fields of the form that do not pass validation.
InvalidFields(userData) ==
  {field \in {"name", "email"} :
     IF field = "name" THEN validateName(userData.name) # Null
                       ELSE validateEmail(userData.email) # Null}

\* C25: a submission whose name or email is invalid comes back with
\* success = false and one error per invalid field, and the user record and
\* the stored user_profile entry stay as they were.
C25_InvalidSubmitBlocked ==
  [][(profile'.op = "submit" /\ profile' # profile
        /\ InvalidFields(profile.formData) # {})
       => /\ ~profile'.result.success
          /\ Len(profile'.result.errors) =
               Cardinality(InvalidFields(profile.formData))
          /\ {profile'.result.errors[i].field :
                i \in 1..Len(profile'.result.errors)} =
               InvalidFields(profile.formData)
          /\ profile'.currentUser = profile.currentUser
          /\ profile'.stored = profile.stored
          /\ ~profile'.isSubmitting]_vars

\* A form with a one-character name and an email without a dot was
\* submitted after a profile had been saved: two errors came back.
C25_Witness ==
  /\ profile.op = "submit"
  /\ profile.stored.present
  /\ Len(profile.formData.name) = 1
  /\ profile.formData.email = <<"a", "@", "b">>
  /\ ~profile.result.success
  /\ Len(profile.result.errors) = 2
  /\ profile.currentUser = profile.stored.user

\* C30: validateName accepts exactly the names of at least 2 and fewer than
\* 50 characters: the empty name is 'Name is required', a name of 1 character
\* 'Name must be at least 2 characters long', and a name of 50 or more
\* characters 'Name must be less than 50 characters'.
C30_NameLengthLimits ==
  profile.op = "validateField.name" =>
    LET length == Len(profile.formData.name)
        message == IF "name" \in DOMAIN profile.errors
                     THEN profile.errors["name"] ELSE Null
    IN /\ (message = Null) = (length >= 2 /\ length < 50)
       /\ length = 0 => message = "Name is required"
       /\ length = 1 => message = "Name must be at least 2 characters long"
       /\ length >= 50 => message = "Name must be less than 50 characters"


\* The page of the server's catalogue a settled list shows: some search
\* term's page numbered currentPage, with that term's count.
ShowsPage(v) ==
  \E term \in SearchTerms :
    /\ v.books = ServerBooks(Request(0, v.currentPage, v.pageSize, term))
    /\ v.totalItems = Matches(term)
    /\ v.totalPages = Ceil(Matches(term), v.pageSize)

\* C26: once fetchBooks has settled against a server whose count does not
\* change, totalPages > 0 implies that currentPage lies in 1..totalPages and
\* that the list shown is the page numbered currentPage.
C26_SettledPageShown ==
  (view.name = "list" /\ view.pending = <<>> /\ view.totalPages > 0) =>
    /\ view.currentPage \in 1..view.totalPages
    /\ ShowsPage(view)

\* C27: once all of several overlapping fetches of the list have settled,
\* in whatever order, books, totalItems and totalPages are those of the
\* response to the request issued last.
C27_LatestRequestWins ==
  (view.name = "list" /\ view.pending = <<>> /\ view.raced) =>
    /\ view.books = ServerBooks(view.issued)
    /\ view.totalItems = Matches(view.issued.term)
    /\ view.totalPages = Ceil(Matches(view.issued.term), view.issued.limit)


\* C28: the search callback runs only once the view's delay (200 ms, 300 ms
\* on the kanban view) has passed with no further input; it leaves no timer
\* pending, so it runs at most once per quiet period; searchTerm then holds
\* the value of the last input event; an input event leaves exactly one
\* timer pending, the one it has set, with the full delay ahead.
C28_SearchDebounced ==
  [][/\ (view'.op = "search"
           /\ Cardinality(view'.timers) < Cardinality(view.timers)) =>
          /\ view.sinceInput >= Debounce(view.name)
          /\ view'.timers = {}
          /\ view'.searchTerm = view.lastInput
          /\ view'.issued.term = view.lastInput
     /\ (view'.op = "input" /\ view' # view) =>
          /\ view'.timers = {[id |-> view'.debounceTimeout,
                              left |-> Debounce(view.name)]}
          /\ view'.searchTerm = view'.lastInput]_vars

\* On the kanban view the callback has run, 300 ms after the last input.
C28_Witness ==
  /\ view.name = "kanban"
  /\ view.op = "search"
  /\ view.sinceInput = 300
  /\ view.issued.term = "zz"
  /\ view.timers = {}


\* The page numbers a pagination bar lists, in the bar's order.
PagesOf(range) ==
  SelectSeq(range, LAMBDA entry : entry.kind = "page")

\* C29: for totalPages >= 1 and currentPage in 1..totalPages,
\* paginationRange lists page numbers in strictly increasing order, holds
\* 1, totalPages and currentPage, holds every page when totalPages <= 5,
\* and has an ellipsis exactly where at least one page number is skipped
\* between two listed pages.
C29_PaginationRange ==
  (view.name = "list" /\ view.totalPages >= 1
     /\ view.currentPage \in 1..view.totalPages) =>
    LET range == paginationRange(view.totalPages, view.currentPage)
        pages == PagesOf(range)
        listed == {pages[i].page : i \in 1..Len(pages)}
    IN /\ \A i \in 1..(Len(pages) - 1) : pages[i].page < pages[i + 1].page
       /\ {1, view.totalPages, view.currentPage} \subseteq listed
       /\ listed \subseteq 1..view.totalPages
       /\ view.totalPages <= 5 =>
            (listed = 1..view.totalPages /\ pages = range)
       /\ range[1].kind = "page" /\ range[Len(range)].kind = "page"
       /\ \A i \in 1..(Len(range) - 1) :
            /\ (range[i].kind = "page" /\ range[i + 1].kind = "page") =>
                 range[i + 1].page = range[i].page + 1
            /\ range[i].kind = "..." =>
                 /\ range[i - 1].kind = "page"
                 /\ range[i + 1].kind = "page"
                 /\ range[i + 1].page > range[i - 1].page + 1

\* A page in the middle of a long list has arrived after a click on its
\* number: the bar has an ellipsis on either side.
C29_Witness ==
  /\ view.name = "list"
  /\ view.op = "response"
  /\ view.totalPages = MaxPages
  /\ view.currentPage = 4
  /\ paginationRange(view.totalPages, view.currentPage) =
       <<Page(1), Ellipsis, Page(3), Page(4), Page(5), Ellipsis,
         Page(MaxPages)>>

============================================================================
